---- MODULE Spec2Model ----
(***************************************************************************)
(* Model of the self-relocating entry thunk _start (startup/startup.S) and *)
(* of the PL011 UART driver (driver/uart.c).                               *)
(*                                                                         *)
(* A 32-bit register or memory word is an integer in -2^31 .. 2^31-1 (its  *)
(* two's complement reading); every arithmetic helper wraps modulo 2^32.   *)
(***************************************************************************)
EXTENDS Integers, Sequences, FiniteSets, TLC

(***************************************************************************)
(* Bounds of the model.                                                    *)
(***************************************************************************)
MaxGotWords == 2
MaxBssWords == 2
MaxDirty == 1
MaxStrLen == 3
MaxInvocations == 2

(***************************************************************************)
(* 32-bit arithmetic of the ARM data-processing instructions.              *)
(***************************************************************************)
Half == 2 ^ 16
MinWord == (-2147483647) - 1

Hi16(a) == a \div Half
Lo16(a) == a % Half
Wrap16(h) == ((h + 32768) % Half) - 32768
MkWord(h, l) == Wrap16(h) * Half + (l % Half)

\* add Rd, Rn, Rm : Rd = (Rn + Rm) mod 2^32
Add32(a, b) ==
  LET l == Lo16(a) + Lo16(b)
      h == Hi16(a) + Hi16(b) + (l \div Half)
  IN  MkWord(h, l)

\* sub Rd, Rn, Rm : Rd = (Rn - Rm) mod 2^32
Sub32(a, b) ==
  LET l == Lo16(a) - Lo16(b)
      h == Hi16(a) - Hi16(b) + (l \div Half)
  IN  MkWord(h, l)

\* unsigned a < b on 32-bit words
ULt(a, b) == IF (a < 0) = (b < 0) THEN a < b ELSE b < 0
ULe(a, b) == a = b \/ ULt(a, b)

RECURSIVE AndN(_, _, _)
AndN(x, y, n) ==
  IF n = 0 THEN 0
  ELSE (x % 2) * (y % 2) + 2 * AndN(x \div 2, y \div 2, n - 1)

RECURSIVE OrN(_, _, _)
OrN(x, y, n) ==
  IF n = 0 THEN 0
  ELSE (IF (x % 2) + (y % 2) > 0 THEN 1 ELSE 0)
         + 2 * OrN(x \div 2, y \div 2, n - 1)

\* and / orr / bic (C: &, |, & ~)
And32(a, b) ==
  MkWord(AndN(Hi16(a) % Half, Hi16(b) % Half, 16), AndN(Lo16(a), Lo16(b), 16))
Or32(a, b) ==
  MkWord(OrN(Hi16(a) % Half, Hi16(b) % Half, 16), OrN(Lo16(a), Lo16(b), 16))
Not32(a) == (-1) - a
Bic32(a, m) == And32(a, Not32(m))

(***************************************************************************)
(* Program status register: N Z C V in bits 31..28, I F T in bits 7..5,    *)
(* mode in bits 4..0.                                                      *)
(***************************************************************************)
ModeUsr == 16
ModeIrq == 18
ModeSvc == 19
ModeSys == 31

Quarter == 2 ^ 28

FlagN(psr) == psr < 0
FlagZ(psr) == (psr \div (Quarter * 4)) % 2 = 1
FlagC(psr) == (psr \div (Quarter * 2)) % 2 = 1
FlagV(psr) == (psr \div Quarter) % 2 = 1
ModeOf(psr) == psr % 32

\* the status word with its four condition flags replaced by nibble nzcv
SetNZCV(psr, nzcv) ==
  (IF nzcv >= 8 THEN nzcv - 16 ELSE nzcv) * Quarter + (psr % Quarter)

Bit(b) == IF b THEN 1 ELSE 0

\* flags of subs Rd, Rn, Rm (and of cmp): N Z C V of Rn - Rm
SubsFlags(a, b) ==
  LET r == Sub32(a, b)
  IN  8 * Bit(r < 0) + 4 * Bit(r = 0) + 2 * Bit(~ULt(a, b))
        + Bit(((a < 0) # (b < 0)) /\ ((r < 0) # (a < 0)))

\* condition codes of the conditional branches
CondNE(psr) == ~FlagZ(psr)
CondLE(psr) == FlagZ(psr) \/ (FlagN(psr) # FlagV(psr))
CondGT(psr) == ~FlagZ(psr) /\ (FlagN(psr) = FlagV(psr))

\* the register bank that holds sp and lr in a mode
Bank(mode) ==
  IF mode = ModeSvc THEN "svc" ELSE IF mode = ModeIrq THEN "irq" ELSE "usr"
Banks == {"usr", "svc", "irq"}

\* msr cpsr, Rm (fields f and c): user mode can only write the flags
MsrCpsr(cur, val) ==
  IF ModeOf(cur) = ModeUsr
  THEN SetNZCV(cur, (val \div Quarter) % 16)
  ELSE SetNZCV(cur - (cur % 256) + (val % 256), (val \div Quarter) % 16)

(***************************************************************************)
(* Link-time layout of the image (the linker symbols the thunk loads from  *)
(* its literal pool) and the addresses the loader may place it at.         *)
(***************************************************************************)
GotLink == 65532        \* 0x0000FFFC
BssLink == 131068       \* 0x0001FFFC
StackLink == 196608     \* 0x00030000

\* 0x00010000, 0x7FFF0000, 0x7FFE0000, 0xFFFC0000
LoadAddrs == {65536, 2147418112, 2147352576, -262144}

\* byte offsets inside _start: the instruction after `bl main`, the saved
\* context words
RetOff(fs) == IF fs THEN 148 ELSE 124
LstackOff(fs) == IF fs THEN 188 ELSE 136
LmodeOff(fs) == LstackOff(fs) + 4
LstackSvcOff(fs) == LstackOff(fs) + 8

\* a table of n words at link address base; n < 0 gives the two boundary
\* symbols swapped (inverted bounds)
SymStart(base, n) == IF n >= 0 THEN base ELSE base - 4 * n
SymEnd(base, n) == IF n >= 0 THEN base + 4 * n ELSE base

\* link-time contents of Offset Table slot i
GotVal(pat, i) ==
  IF pat = 1 THEN BssLink + 4 * i
  ELSE IF i % 2 = 0 THEN -1 ELSE 2147483640 - i
Patterns == {1, 2}
Garbage == 23130 * Half + 23130   \* 0x5A5A5A5A, uninitialised RAM

\* what the loader hands over: stack pointer, link register, status word
Callers ==
  { [sp |-> 32768, lr |-> 16384, cpsr |-> SetNZCV(192 + ModeSvc, 6)],
    [sp |-> 32784, lr |-> 16388, cpsr |-> SetNZCV(ModeUsr, 8)],
    [sp |-> 32768, lr |-> 16392, cpsr |-> SetNZCV(128 + ModeIrq, 0)],
    [sp |-> 8, lr |-> 16384, cpsr |-> SetNZCV(ModeSys, 3)] }

BankSp0(b) == IF b = "svc" THEN 36864 ELSE IF b = "irq" THEN 40960 ELSE 45056
BankLr0(b) == IF b = "svc" THEN 20480 ELSE IF b = "irq" THEN 24576 ELSE 28672

GotWin == {GotLink + 4 * i : i \in (-2) .. (MaxGotWords + 1)}
BssWin == {BssLink + 4 * i : i \in (-2) .. (MaxBssWords + 1)}
StackWin == {StackLink - 4 * i : i \in 1 .. 2}
CtxWin(fs) ==
  IF fs THEN {LstackOff(fs), LmodeOff(fs), LstackSvcOff(fs)} ELSE {LstackOff(fs)}

InitMem(load, fs, sp0, pat) ==
  LET img == GotWin \cup BssWin \cup StackWin \cup CtxWin(fs)
      val(o) == IF o \in GotWin THEN GotVal(pat, (o - GotLink) \div 4)
                ELSE IF o \in CtxWin(fs) THEN 0
                ELSE Garbage
      stk == {Sub32(sp0, 4 * i) : i \in 1 .. 4}
  IN  [a \in {Add32(load, o) : o \in img} \cup stk |->
         IF \E o \in img : a = Add32(load, o)
         THEN val(CHOOSE o \in img : a = Add32(load, o))
         ELSE Garbage]

Rd(m, a) == IF a \in DOMAIN m THEN m[a] ELSE 0
\* variant: a store that is lost
WrDrop(m, a, v) == m
Wr(m, a, v) == [x \in (DOMAIN m) \cup {a} |-> IF x = a THEN v ELSE m[x]]

(***************************************************************************)
(* State of one invocation of _start.                                      *)
(***************************************************************************)
VARIABLES
  forceSvc,   \* the build defines FORCE_SVC
  loadAddr,   \* run-time address of _start
  sym,        \* literal pool: link-time __got_start__, __got_end__, ...
  pc,         \* position in _start
  r4, r5, r6, r7,
  sp, lr,     \* banked registers, one per bank
  cpsr,
  mem,        \* memory words by address
  dirty,      \* dirty D-cache lines left
  acc,        \* memory accesses made by the thunk
  gotN, bssN, \* executions of the two loop bodies
  mainCalls,  \* executions of `bl main`
  entry,      \* register and memory contents when control entered _start
  retTo,      \* where the last `bx lr` went
  \* ---- UART driver ----
  uart,       \* registers of each controller: UARTCR, UARTIMSC
  call,       \* the driver call in progress (or the last one made)
  upc,        \* position inside that call
  cp,         \* uart_print: index of the character cp points at
  wlog,       \* register writes made by the call, in order
  fr,         \* last value read from UARTFR by the call (-1: none)
  sawFull,    \* some read of UARTFR by the call showed TXFF set
  drRead,     \* value of UARTDR read by the call (-1: none)
  pre,        \* the registers when the call was made
  ret         \* value returned by the call

uartVars == <<uart, call, upc, cp, wlog, fr, sawFull, drRead, pre, ret>>

thunkVars == <<forceSvc, loadAddr, sym, pc, r4, r5, r6, r7, sp, lr, cpsr, mem,
               dirty, acc, gotN, bssN, mainCalls, entry, retTo>>

Access(blk, op, via, addr) == [blk |-> blk, op |-> op, via |-> via, addr |-> addr]

CurBank == Bank(ModeOf(cpsr))
CurSp == sp[CurBank]
\* variant: always the user-mode stack pointer
SetSpUsrBank(v) == [sp EXCEPT !["usr"] = v]
SetSp(v) == [sp EXCEPT ![CurBank] = v]

ThunkInit ==
  /\ forceSvc \in BOOLEAN
  /\ loadAddr \in LoadAddrs
  /\ \E g \in (-1) .. MaxGotWords, b \in (-1) .. MaxBssWords :
       sym = [got_start |-> SymStart(GotLink, g), got_end |-> SymEnd(GotLink, g),
              bss_start |-> SymStart(BssLink, b), bss_end |-> SymEnd(BssLink, b),
              stack |-> StackLink]
  /\ pc = "start"
  /\ r4 = 1028 /\ r5 = 1285 /\ r6 = 1542 /\ r7 = 1799
  /\ \E c \in Callers :
       /\ cpsr = c.cpsr
       /\ sp = [b \in Banks |-> IF b = Bank(ModeOf(c.cpsr)) THEN c.sp ELSE BankSp0(b)]
       /\ lr = [b \in Banks |-> IF b = Bank(ModeOf(c.cpsr)) THEN c.lr ELSE BankLr0(b)]
       /\ \E pat \in Patterns : mem = InitMem(loadAddr, forceSvc, c.sp, pat)
  /\ dirty \in 0 .. MaxDirty
  /\ acc = {}
  /\ gotN = 0 /\ bssN = 0 /\ mainCalls = 0
  /\ entry = [sp |-> sp, lr |-> lr, cpsr |-> cpsr, mem |-> mem,
              r4 |-> r4, r5 |-> r5, r6 |-> r6, r7 |-> r7,
              run |-> 1, image |-> mem]
  /\ retTo = 0

\* the driver is not in use while the thunk is studied
UartUnused ==
  /\ uart = <<>> /\ call = <<>> /\ upc = "idle" /\ cp = 0
  /\ wlog = <<>> /\ fr = -1 /\ sawFull = FALSE /\ drRead = -1
  /\ pre = <<>> /\ ret = 0

(***************************************************************************)
(* _start, one action per basic block.                                     *)
(***************************************************************************)

\* variant: a push of eight registers instead of four
FrameBaseWide(s0) == Sub32(s0, 32)
\* stmfd sp!, {r4-r7}: the stack pointer after the four registers are pushed
FrameBase(s0) == Sub32(s0, 16)
\* variant: ldmfd without base write-back
FrameTopNoWriteback(s1) == s1
\* ldmfd sp!, {r4-r7}: the stack pointer after the four registers are popped
FrameTop(s1) == Add32(s1, 16)

\* variant: a program counter that reads one instruction ahead
PcReadShort(instr) == Add32(instr, 4)
\* the pc as an instruction at address instr reads it: two instructions ahead
PcRead(instr) == Add32(instr, 8)

\* stmfd sp!, {r4-r7} ; sub r7, pc, #12 ; str sp, .Lstack
Entry ==
  /\ pc = "start"
  /\ LET s0 == CurSp
         s1 == FrameBase(s0)
         m1 == Wr(Wr(Wr(Wr(mem, s1, r4), Add32(s1, 4), r5),
                     Add32(s1, 8), r6), Add32(s1, 12), r7)
         here == Add32(loadAddr, 4)                 \* address of the sub
         base == Sub32(PcRead(here), 12)
         slot == Add32(loadAddr, LstackOff(forceSvc))
     IN  /\ sp' = SetSp(s1)
         /\ r7' = base
         /\ mem' = Wr(m1, slot, s1)
         /\ acc' = acc \cup {Access("entry", "w", "sp", Add32(s1, 4 * i)) : i \in 0 .. 3}
                       \cup {Access("entry", "w", "pc", slot)}
  /\ pc' = "dcache"
  /\ UNCHANGED <<forceSvc, loadAddr, sym, r4, r5, r6, lr, cpsr, dirty, gotN, bssN,
                 mainCalls, entry, retTo,
                 uartVars>>

\* .L_dcache_flush: mrc p15, 0, r15, c7, c10, 3 ; bne .L_dcache_flush
\* The test cleans one dirty line and reports Z when none is left; the other
\* three flags are whatever the coprocessor returns.
DcacheFlush ==
  /\ pc = "dcache"
  /\ \E ncv \in {0, 11} :
       LET z == IF dirty = 0 THEN 4 ELSE 0
           psr == SetNZCV(cpsr, ncv + z)
       IN  /\ cpsr' = psr
           /\ pc' = IF CondNE(psr) THEN "dcache" ELSE "invalidate"
  /\ dirty' = IF dirty = 0 THEN 0 ELSE dirty - 1
  /\ UNCHANGED <<forceSvc, loadAddr, sym, r4, r5, r6, r7, sp, lr, mem, acc, gotN,
                 bssN, mainCalls, entry, retTo,
                 uartVars>>

\* mov r4, #0 ; mcr p15, 0, r4, c7, c7, 0
Invalidate ==
  /\ pc = "invalidate"
  /\ r4' = 0
  /\ pc' = "got_setup"
  /\ UNCHANGED <<forceSvc, loadAddr, sym, r5, r6, r7, sp, lr, cpsr, mem, dirty, acc,
                 gotN, bssN, mainCalls, entry, retTo,
                 uartVars>>

AfterGot == IF forceSvc THEN "mode_switch" ELSE "stack_install"

\* ldr r5, =__got_start__ ; add r5, r7 ; ldr r6, =__got_end__ ; add r6, r7
\* subs r6, r5 ; ble .L_got_loop_done
GotSetup ==
  /\ pc = "got_setup"
  /\ LET start == Add32(sym.got_start, r7)
         end == Add32(sym.got_end, r7)
         psr == SetNZCV(cpsr, SubsFlags(end, start))
     IN  /\ r5' = start
         /\ r6' = Sub32(end, start)
         /\ cpsr' = psr
         /\ pc' = IF CondLE(psr) THEN AfterGot ELSE "got_loop"
  /\ UNCHANGED <<forceSvc, loadAddr, sym, r4, r7, sp, lr, mem, dirty, acc, gotN,
                 bssN, mainCalls, entry, retTo,
                 uartVars>>

\* .L_got_loop: subs r6, #4 ; ldr r4, [r5, r6] ; add r4, r7 ; str r4, [r5, r6]
\* bgt .L_got_loop
GotLoop ==
  /\ pc = "got_loop"
  /\ LET off == Sub32(r6, 4)
         psr == SetNZCV(cpsr, SubsFlags(r6, 4))
         a == Add32(r5, off)
         v == Add32(Rd(mem, a), r7)
     IN  /\ r6' = off
         /\ r4' = v
         /\ mem' = Wr(mem, a, v)
         /\ acc' = acc \cup {Access("got", "r", "r5", a), Access("got", "w", "r5", a)}
         /\ cpsr' = psr
         /\ pc' = IF CondGT(psr) THEN "got_loop" ELSE AfterGot
  /\ gotN' = gotN + 1
  /\ UNCHANGED <<forceSvc, loadAddr, sym, r5, r7, sp, lr, dirty, bssN, mainCalls,
                 entry, retTo,
                 uartVars>>

\* variant: a switch that writes a fresh status word
SwitchedPsrFresh(cur) == 192 + ModeSvc
\* bic r4, #0x1f ; orr r4, #0xd3
SwitchedPsr(cur) == Or32(Bic32(cur, 31), 211)

\* #if defined(FORCE_SVC)
\* mrs r4, cpsr ; str r4, .Lmode ; bic r4, #0x1f ; orr r4, #0xd3 ; msr cpsr, r4
\* str sp, .Lstack_svc
ModeSwitch ==
  /\ pc = "mode_switch"
  /\ LET old == cpsr
         new == SwitchedPsr(old)
         psr == MsrCpsr(old, new)
         mslot == Add32(loadAddr, LmodeOff(forceSvc))
         sslot == Add32(loadAddr, LstackSvcOff(forceSvc))
     IN  /\ r4' = new
         /\ cpsr' = psr
         /\ mem' = Wr(Wr(mem, mslot, old), sslot, sp[Bank(ModeOf(psr))])
         /\ acc' = acc \cup {Access("mode_switch", "w", "pc", mslot),
                             Access("mode_switch", "w", "pc", sslot)}
  /\ pc' = "stack_install"
  /\ UNCHANGED <<forceSvc, loadAddr, sym, r5, r6, r7, sp, lr, dirty, gotN, bssN,
                 mainCalls, entry, retTo,
                 uartVars>>

\* ldr r4, =__stack__ ; add sp, r7, r4
StackInstall ==
  /\ pc = "stack_install"
  /\ r4' = sym.stack
  /\ sp' = SetSp(Add32(r7, sym.stack))
  /\ pc' = "bss_setup"
  /\ UNCHANGED <<forceSvc, loadAddr, sym, r5, r6, r7, lr, cpsr, mem, dirty, acc,
                 gotN, bssN, mainCalls, entry, retTo,
                 uartVars>>

\* ldr r5, =__bss_start__ ; add r5, r7 ; ldr r6, =__bss_end__ ; add r6, r7
\* movs r4, #0 ; subs r6, r5 ; ble .L_bss_loop_done
BssSetup ==
  /\ pc = "bss_setup"
  /\ LET start == Add32(sym.bss_start, r7)
         end == Add32(sym.bss_end, r7)
         psr == SetNZCV(cpsr, SubsFlags(end, start))
     IN  /\ r5' = start
         /\ r6' = Sub32(end, start)
         /\ r4' = 0
         /\ cpsr' = psr
         /\ pc' = IF CondLE(psr) THEN "call_main" ELSE "bss_loop"
  /\ UNCHANGED <<forceSvc, loadAddr, sym, r7, sp, lr, mem, dirty, acc, gotN, bssN,
                 mainCalls, entry, retTo,
                 uartVars>>

\* .L_bss_loop: subs r6, #4 ; str r4, [r5, r6] ; bgt .L_bss_loop
BssLoop ==
  /\ pc = "bss_loop"
  /\ LET off == Sub32(r6, 4)
         psr == SetNZCV(cpsr, SubsFlags(r6, 4))
         a == Add32(r5, off)
     IN  /\ r6' = off
         /\ mem' = Wr(mem, a, r4)
         /\ acc' = acc \cup {Access("bss", "w", "r5", a)}
         /\ cpsr' = psr
         /\ pc' = IF CondGT(psr) THEN "bss_loop" ELSE "call_main"
  /\ bssN' = bssN + 1
  /\ UNCHANGED <<forceSvc, loadAddr, sym, r4, r5, r7, sp, lr, dirty, gotN, mainCalls,
                 entry, retTo,
                 uartVars>>

RetAddr == Add32(loadAddr, RetOff(forceSvc))

\* bl main
CallMain ==
  /\ pc = "call_main"
  /\ lr' = [lr EXCEPT ![CurBank] = RetAddr]
  /\ mainCalls' = mainCalls + 1
  /\ pc' = "main"
  /\ UNCHANGED <<forceSvc, loadAddr, sym, r4, r5, r6, r7, sp, cpsr, mem, dirty, acc,
                 gotN, bssN, entry, retTo,
                 uartVars>>

AfterMain == IF forceSvc THEN "mode_restore" ELSE "stack_restore"

\* main runs on the private stack and returns to the address `bl` gave it.
\* A procedure-call-standard callee: r4-r11 and sp come back unchanged, lr and
\* the condition flags do not; privileged code may also unmask interrupts.
\* It writes its own stack and data, and may write memory of its caller's
\* caller: here the word where the entry push put r6.
MainFlags == {6, 9}
MainLr == {0, 1}
MainRuns ==
  /\ pc = "main"
  /\ \E f \in MainFlags, k \in MainLr, unmask \in BOOLEAN, hit \in BOOLEAN :
       /\ unmask => ModeOf(cpsr) # ModeUsr
       /\ cpsr' = SetNZCV(IF unmask THEN Bic32(cpsr, 192) ELSE cpsr, f)
       /\ lr' = [lr EXCEPT ![CurBank] = IF k = 0 THEN RetAddr ELSE Garbage]
       /\ mem' = LET m1 == Wr(mem, Sub32(CurSp, 4), RetAddr)
                     m2 == IF ULt(Add32(sym.bss_start, r7), Add32(sym.bss_end, r7))
                           THEN Wr(m1, Add32(sym.bss_start, r7), 7)
                           ELSE m1
                 IN  IF hit
                     THEN Wr(m2, Sub32(entry.sp[Bank(ModeOf(entry.cpsr))], 8), Garbage)
                     ELSE m2
  /\ pc' = AfterMain
  /\ UNCHANGED <<forceSvc, loadAddr, sym, r4, r5, r6, r7, sp, dirty, acc, gotN, bssN,
                 mainCalls, entry, retTo,
                 uartVars>>

\* variant: the status word is left as it is
RestoredPsrKeep(cur, saved) == cur
\* variant: only the mode field is put back
RestoredPsrModeOnly(cur, saved) == Or32(Bic32(cur, 31), And32(saved, 31))
\* and r5, #0xff ; bic r4, #0xff ; orr r4, r5
RestoredPsr(cur, saved) == Or32(Bic32(cur, 255), And32(saved, 255))

\* #if defined(FORCE_SVC)
\* ldr sp, .Lstack_svc ; mrs r4, cpsr ; ldr r5, .Lmode ; and r5, #0xff
\* bic r4, #0xff ; orr r4, r5 ; msr cpsr, r4
ModeRestore ==
  /\ pc = "mode_restore"
  /\ LET mslot == Add32(loadAddr, LmodeOff(forceSvc))
         sslot == Add32(loadAddr, LstackSvcOff(forceSvc))
         low == And32(Rd(mem, mslot), 255)
         new == RestoredPsr(cpsr, Rd(mem, mslot))
     IN  /\ sp' = SetSp(Rd(mem, sslot))
         /\ r5' = low
         /\ r4' = new
         /\ cpsr' = MsrCpsr(cpsr, new)
         /\ acc' = acc \cup {Access("mode_restore", "r", "pc", sslot),
                             Access("mode_restore", "r", "pc", mslot)}
  /\ pc' = "stack_restore"
  /\ UNCHANGED <<forceSvc, loadAddr, sym, r6, r7, lr, mem, dirty, gotN, bssN,
                 mainCalls, entry, retTo,
                 uartVars>>

\* variant: a pop that takes the registers in descending order
PopAddrDescending(s1, k) == Add32(s1, 4 * (3 - k))
\* ldmfd: register number k of the list comes from word k above the base
PopAddr(s1, k) == Add32(s1, 4 * k)

\* ldr sp, .Lstack ; ldmfd sp!, {r4-r7}
StackRestore ==
  /\ pc = "stack_restore"
  /\ LET slot == Add32(loadAddr, LstackOff(forceSvc))
         s1 == Rd(mem, slot)
     IN  /\ r4' = Rd(mem, PopAddr(s1, 0))
         /\ r5' = Rd(mem, PopAddr(s1, 1))
         /\ r6' = Rd(mem, PopAddr(s1, 2))
         /\ r7' = Rd(mem, PopAddr(s1, 3))
         /\ sp' = SetSp(FrameTop(s1))
         /\ acc' = acc \cup {Access("stack_restore", "r", "pc", slot)}
                       \cup {Access("stack_restore", "r", "sp", Add32(s1, 4 * i)) : i \in 0 .. 3}
  /\ pc' = "bx_lr"
  /\ UNCHANGED <<forceSvc, loadAddr, sym, lr, cpsr, mem, dirty, gotN, bssN, mainCalls,
                 entry, retTo,
                 uartVars>>

\* bx lr: control goes wherever the link register of the current mode points;
\* the address `bl main` left there is the unwind code of _start itself.
BxLr ==
  /\ pc = "bx_lr"
  /\ retTo' = lr[CurBank]
  /\ pc' = IF lr[CurBank] = RetAddr THEN AfterMain ELSE "returned"
  /\ UNCHANGED <<forceSvc, loadAddr, sym, r4, r5, r6, r7, sp, lr, cpsr, mem, dirty,
                 acc, gotN, bssN, mainCalls, entry,
                 uartVars>>

\* The caller, back in control at the address it passed in lr, calls _start
\* again: same mode and flags, same stack pointer, r4-r7 reloaded. Memory is
\* as the last invocation left it; the D-cache may hold dirty lines again.
Reinvoke ==
  /\ pc = "returned"
  /\ retTo = entry.lr[Bank(ModeOf(entry.cpsr))]
  /\ ModeOf(cpsr) = ModeOf(entry.cpsr)
  /\ entry.run < MaxInvocations
  /\ cpsr' = entry.cpsr
  /\ r4' = entry.r4 /\ r5' = entry.r5 /\ r6' = entry.r6 /\ r7' = entry.r7
  /\ dirty' \in 0 .. MaxDirty
  /\ entry' = [entry EXCEPT !.sp = sp, !.lr = lr, !.mem = mem, !.run = entry.run + 1]
  /\ acc' = {}
  /\ gotN' = 0 /\ bssN' = 0 /\ mainCalls' = 0 /\ retTo' = 0
  /\ pc' = "start"
  /\ UNCHANGED <<forceSvc, loadAddr, sym, sp, lr, mem,
                 uartVars>>

ThunkNext ==
  \/ Reinvoke
  \/ Entry
  \/ DcacheFlush
  \/ Invalidate
  \/ GotSetup
  \/ GotLoop
  \/ ModeSwitch
  \/ StackInstall
  \/ BssSetup
  \/ BssLoop
  \/ CallMain
  \/ MainRuns
  \/ ModeRestore
  \/ StackRestore
  \/ BxLr

vars == <<thunkVars, uartVars>>
Init == ThunkInit /\ UartUnused
Next == ThunkNext
Spec == Init /\ [][Next]_vars

\* every access of the thunk stays inside the modelled memory
AccMapped == \A e \in acc : e.addr \in DOMAIN entry.mem

(***************************************************************************)
(* Vocabulary of the properties of _start.                                 *)
(***************************************************************************)
\* Load Base Offset: run-time address minus link-time address (_start is
\* linked at 0)
LoadBase == loadAddr

GotStartRt == Add32(sym.got_start, LoadBase)
GotEndRt == Add32(sym.got_end, LoadBase)
BssStartRt == Add32(sym.bss_start, LoadBase)
BssEndRt == Add32(sym.bss_end, LoadBase)

\* the boundary symbols describe a table of N >= 0 words
GotProper == sym.got_start <= sym.got_end
BssProper == sym.bss_start <= sym.bss_end
GotSlots == (sym.got_end - sym.got_start) \div 4
BssWords == (sym.bss_end - sym.bss_start) \div 4
WordsOf(start, n) == {Add32(start, 4 * i) : i \in 0 .. (n - 1)}

\* the signed comparisons of the two guards and loops read the bounds right:
\* the relocated region does not reach or cross address 0x80000000
GotUnsignedSafe == (GotStartRt < 0) = (GotEndRt < 0)
BssUnsignedSafe == (BssStartRt < 0) = (BssEndRt < 0)

WalkEnded == pc \in {"mode_switch", "stack_install"}
FillEnded == pc = "call_main"
AtReturn == pc = "bx_lr"
CallerBank == Bank(ModeOf(entry.cpsr))

GotPatched ==
  \A a \in WordsOf(GotStartRt, GotSlots) :
    Rd(mem, a) = Add32(Rd(entry.mem, a), LoadBase)
GotWritesInside ==
  \A e \in acc : (e.blk = "got" /\ e.op = "w") => e.addr \in WordsOf(GotStartRt, GotSlots)
BssCleared == \A a \in WordsOf(BssStartRt, BssWords) : Rd(mem, a) = 0
BssWritesInside ==
  \A e \in acc : e.blk = "bss" => e.addr \in WordsOf(BssStartRt, BssWords)

(***************************************************************************)
(* C1. Relocation Walker: for every Load Base Offset and every Offset      *)
(* Table of N >= 0 slots, when the walk ends every slot holds its          *)
(* link-time value plus the offset (mod 2^32), the walk wrote no word      *)
(* outside the table, and for N = 0 it wrote nothing.                      *)
(***************************************************************************)
C1_RelocationWalker ==
  (WalkEnded /\ GotProper) =>
    /\ GotPatched
    /\ GotWritesInside
    /\ (GotSlots = 0 => gotN = 0)

\* the same statement for tables that do not reach address 0x80000000
RelocationWalkerBelowBoundary ==
  (WalkEnded /\ GotProper /\ GotUnsignedSafe) =>
    (GotPatched /\ GotWritesInside /\ gotN = GotSlots)

\* a one-slot table at 0x7FFFFFFC is left unpatched
C1_TableEndsAtBoundary ==
  /\ WalkEnded /\ loadAddr = 2147418112
  /\ sym.got_start = GotLink /\ sym.got_end = GotLink + 4
  /\ gotN = 0 /\ ~GotPatched

(***************************************************************************)
(* C2. Zero-Fill Initializer: for every Zero Region of L >= 0 bytes (a     *)
(* multiple of 4), when the pass ends every word of the region is zero,    *)
(* exactly L/4 zero words were written and none outside the region.        *)
(***************************************************************************)
C2_ZeroFill ==
  (FillEnded /\ BssProper) =>
    /\ BssCleared
    /\ bssN = BssWords
    /\ BssWritesInside

\* the same statement for regions that do not reach address 0x80000000
ZeroFillBelowBoundary ==
  (FillEnded /\ BssProper /\ BssUnsignedSafe) =>
    (BssCleared /\ bssN = BssWords /\ BssWritesInside)

\* a one-word region at 0x7FFFFFFC is left uncleared
C2_RegionEndsAtBoundary ==
  /\ FillEnded /\ loadAddr = 2147352576
  /\ sym.bss_start = BssLink /\ sym.bss_end = BssLink + 4
  /\ bssN = 0 /\ ~BssCleared

(***************************************************************************)
(* C3. Stack-pointer round trip: when the thunk executes its final return  *)
(* instruction, the stack pointer of the caller's mode equals the value it *)
(* had at entry, in both builds.                                           *)
(***************************************************************************)
C3_StackPointerRoundTrip ==
  AtReturn => sp[CallerBank] = entry.sp[CallerBank]

C3_Witness ==
  /\ AtReturn /\ forceSvc /\ CallerBank = "irq"
  /\ sp["irq"] = entry.sp["irq"]
  /\ mainCalls = 1

(***************************************************************************)
(* C4. Return-address round trip: in the build without mode switch, the    *)
(* link register at `bx lr` equals the link register at entry.             *)
(***************************************************************************)
C4_ReturnAddressRoundTrip ==
  (AtReturn /\ ~forceSvc) => lr[CurBank] = entry.lr[CallerBank]

\* the link register at `bx lr` is the address `bl main` put there
C4_ReturnsIntoItself ==
  /\ AtReturn /\ ~forceSvc /\ mainCalls = 1
  /\ lr[CurBank] = RetAddr
  /\ lr[CurBank] # entry.lr[CallerBank]

(***************************************************************************)
(* C5. With FORCE_SVC, at the thunk's return every bit of the status word  *)
(* equals its value at entry (mode field and all other bits).              *)
(***************************************************************************)
C5_StatusWordIdentical ==
  (AtReturn /\ forceSvc) => cpsr = entry.cpsr

\* C5, what the code restores: with FORCE_SVC, at the thunk's return bits 0-7 of the
\* status word (mode field, T, F, I) equal their values at entry; bits 8-31,
\* the condition flags among them, are not restored.
C5_ControlByteRestored ==
  (AtReturn /\ forceSvc) => (cpsr % 256) = (entry.cpsr % 256)

C5_Witness ==
  /\ AtReturn /\ forceSvc
  /\ ModeOf(entry.cpsr) = ModeIrq
  /\ ModeOf(cpsr) = ModeIrq
  /\ cpsr # entry.cpsr

(***************************************************************************)
(* C6. main is called exactly once, and at the moment of the call every    *)
(* Offset Table slot has been patched and every Zero Region word cleared.  *)
(***************************************************************************)
C6_BothPassesBeforeMain ==
  /\ mainCalls <= 1
  /\ (pc = "main" /\ GotProper /\ BssProper) =>
       (mainCalls = 1 /\ GotPatched /\ BssCleared)

\* the same statement for regions that do not reach address 0x80000000
BothPassesBeforeMainBelowBoundary ==
  /\ mainCalls <= 1
  /\ (pc = "main" /\ GotProper /\ BssProper /\ GotUnsignedSafe /\ BssUnsignedSafe) =>
       (mainCalls = 1 /\ GotPatched /\ BssCleared)

\* main is entered with a Zero Region word still holding its old contents
C6_MainSeesUnclearedWord ==
  /\ pc = "main" /\ mainCalls = 1
  /\ GotProper /\ BssProper
  /\ GotPatched /\ ~BssCleared

(***************************************************************************)
(* C7. The thunk makes no memory read or write through the incoming stack  *)
(* pointer.                                                                *)
(***************************************************************************)
C7_NoAccessThroughIncomingSp ==
  \A e \in acc : e.via # "sp"

\* C7, what the code does: the only accesses the thunk makes through the incoming
\* stack pointer are the four word writes of `stmfd sp!, {r4-r7}` just below
\* it at entry and the four reads of `ldmfd sp!, {r4-r7}` of the same words
\* at exit.
CallerFrame == {Sub32(entry.sp[CallerBank], 4 * i) : i \in 1 .. 4}
C7_OnlyCalleeSavedFrame ==
  \A e \in acc :
    e.via = "sp" =>
      /\ e.addr \in CallerFrame
      /\ \/ (e.blk = "entry" /\ e.op = "w")
         \/ (e.blk = "stack_restore" /\ e.op = "r")

C7_Witness ==
  /\ AtReturn
  /\ \A a \in CallerFrame :
       /\ Access("entry", "w", "sp", a) \in acc
       /\ Access("stack_restore", "r", "sp", a) \in acc

(***************************************************************************)
(* C8. Emptiness guard: whenever the relocated start address is greater    *)
(* than or equal to the relocated end address, the pass executes its loop  *)
(* body not even once (no read-modify-write, no write).                    *)
(***************************************************************************)
C8_EmptinessGuard ==
  /\ (WalkEnded /\ ULe(GotEndRt, GotStartRt)) =>
       (gotN = 0 /\ \A e \in acc : e.blk # "got")
  /\ (FillEnded /\ ULe(BssEndRt, BssStartRt)) =>
       (bssN = 0 /\ \A e \in acc : e.blk # "bss")

\* the same statement when the bounds do not lie on opposite sides of
\* address 0x80000000
EmptinessGuardBelowBoundary ==
  /\ (WalkEnded /\ ULe(GotEndRt, GotStartRt) /\ GotUnsignedSafe) => gotN = 0
  /\ (FillEnded /\ ULe(BssEndRt, BssStartRt) /\ BssUnsignedSafe) => bssN = 0

\* start 0x80000000, end 0x7FFFFFFC: the loop body runs once, at 0x7FFFFFF8
C8_InvertedAcrossBoundary ==
  /\ WalkEnded /\ loadAddr = 2147418112
  /\ sym.got_start = GotLink + 4 /\ sym.got_end = GotLink
  /\ gotN = 1
  /\ Access("got", "w", "r5", 2147483640) \in acc

(***************************************************************************)
(* The UART driver (driver/uart.c).                                        *)
(***************************************************************************)
BSP_NR_UARTS == 3

CTL_UARTEN == 1
CTL_SIREN == 2
CTL_SIRLP == 4
CTL_LBE == 128
CTL_TXE == 256
CTL_RXE == 512
CTL_DTR == 1024
CTL_RTS == 2048
CTL_OUT1 == 4096
CTL_OUT2 == 8192
CTL_RTSEn == 16384
CTL_CTSEn == 32768

INT_RIMIM == 1
INT_CTSMIM == 2
INT_DCDMIM == 4
INT_DSRMIM == 8
INT_RXIM == 16
INT_TXIM == 32
INT_RTIM == 64
INT_FEIM == 128
INT_PEIM == 256
INT_BEIM == 512
INT_OEIM == 1024

FR_BUSY == 8
FR_RXFE == 16
FR_TXFF == 32
FR_TXFE == 128

\* variant: a clear that writes the register back as it was
ClearBitsKeep(v, m) == v
\* variant: a set that writes the register back as it was
SetBitsKeep(v, m) == v
\* variant: a flag test that never sees the bit
ReadBitsNone(v, m) == 0
\* variant: a flag test with the opposite sense
ReadBitsInverted(v, m) == And32(Not32(v), m)
\* HWREG_SET_BITS, HWREG_CLEAR_BITS, HWREG_READ_BITS: reg |= m, reg &= ~m,
\* reg & m
SetBits(v, m) == Or32(v, m)
ClearBits(v, m) == And32(v, Not32(m))
ReadBits(v, m) == And32(v, m)

RECURSIVE OrAll(_)
OrAll(ms) == IF ms = <<>> THEN 0 ELSE Or32(Head(ms), OrAll(Tail(ms)))

\* variant: the sanity check off by one
InvalidNrOffByOne(nr) == nr > BSP_NR_UARTS
\* the sanity check at the top of every public function
InvalidNr(nr) == nr >= BSP_NR_UARTS

\* pReg[nr]->reg; an index past the array addresses no modelled controller
ReadReg(u, nr, reg) == IF nr \in DOMAIN u THEN u[nr][reg] ELSE 0
WriteReg(u, nr, reg, v) == IF nr \in DOMAIN u THEN [u EXCEPT ![nr][reg] = v] ELSE u
Wrote(nr, reg, v) == [nr |-> nr, reg |-> reg, val |-> v]

\* channel indices the callers pass (u8), characters, strings
NrVals == {BSP_NR_UARTS - 1, BSP_NR_UARTS, BSP_NR_UARTS + 1, 255}
Chars == <<79, 75, 10>>                        \* 'O' 'K' '\n'
TextAt(k) == Chars[((k - 1) % 3) + 1]
Strings == {[i \in 1 .. n |-> TextAt(s + i - 1)] : s \in 1 .. 3, n \in 0 .. MaxStrLen}
null_str == <<60, 78, 85, 76, 76, 62, 10>>     \* "<NULL>\n"

\* contents the hardware may show: flag register, data register, and the
\* control / interrupt-mask registers when the driver is first used
FrVals == {FR_TXFE, FR_TXFF + FR_BUSY, FR_RXFE + FR_TXFE, FR_TXFF + FR_RXFE}
DrVals == {65, 3840 + 90, 256}
RegInits ==
  { [UARTCR |-> CTL_TXE + CTL_RXE, UARTIMSC |-> 0],
    [UARTCR |-> -1, UARTIMSC |-> -1],
    [UARTCR |-> 0, UARTIMSC |-> 2047],
    [UARTCR |-> MkWord(21845, 43691), UARTIMSC |-> MkWord(43690, 21845)] }

Call(op, nr, ch, str, isNull) ==
  [op |-> op, nr |-> nr, ch |-> ch, str |-> str, isNull |-> isNull]

\* the thunk is not in use while the driver is studied
ThunkUnused ==
  /\ forceSvc = FALSE /\ loadAddr = 0 /\ sym = <<>> /\ pc = "returned"
  /\ r4 = 0 /\ r5 = 0 /\ r6 = 0 /\ r7 = 0
  /\ sp = <<>> /\ lr = <<>> /\ cpsr = 0 /\ mem = <<>> /\ dirty = 0 /\ acc = {}
  /\ gotN = 0 /\ bssN = 0 /\ mainCalls = 0 /\ entry = <<>> /\ retTo = 0

UartInit ==
  /\ \E r \in RegInits : uart = [n \in 0 .. (BSP_NR_UARTS - 1) |-> r]
  /\ call = Call("none", 0, 0, <<>>, FALSE)
  /\ upc = "idle"
  /\ cp = 0
  /\ wlog = <<>> /\ fr = -1 /\ sawFull = FALSE /\ drRead = -1 /\ ret = 0
  /\ pre = uart

\* a caller may make a call when no call is in progress
CanCall == upc = "idle"

\* a call that runs to its return without waiting: registers u, writes w
Finish(c, u, w) ==
  /\ CanCall
  /\ call' = c
  /\ pre' = uart
  /\ uart' = u
  /\ wlog' = w
  /\ upc' = "done"
  /\ cp' = 0 /\ fr' = -1 /\ sawFull' = FALSE /\ drRead' = -1 /\ ret' = 0
  /\ UNCHANGED thunkVars

\* a call that enters a polling loop at position at
Begin(c, at, i) ==
  /\ CanCall
  /\ call' = c
  /\ pre' = uart
  /\ wlog' = <<>>
  /\ upc' = at
  /\ cp' = i
  /\ fr' = -1 /\ sawFull' = FALSE /\ drRead' = -1 /\ ret' = 0
  /\ UNCHANGED <<uart, thunkVars>>

\* the register writes of uart_init, in order
InitWrites(u, nr) ==
  LET c0 == ReadReg(u, nr, "UARTCR")
      c1 == ClearBits(c0, CTL_UARTEN)
      c2 == SetBits(c1, CTL_TXE)
      c3 == ClearBits(c2, OrAll(<<CTL_SIREN, CTL_SIRLP, CTL_LBE, CTL_RXE, CTL_DTR>>))
      c4 == ClearBits(c3, OrAll(<<CTL_RTS, CTL_OUT1, CTL_OUT2, CTL_RTSEn, CTL_CTSEn>>))
      i0 == ReadReg(u, nr, "UARTIMSC")
      i1 == ClearBits(i0, OrAll(<<INT_RIMIM, INT_CTSMIM, INT_DCDMIM, INT_DSRMIM,
                                  INT_RXIM, INT_TXIM>>))
      i2 == ClearBits(i1, OrAll(<<INT_RTIM, INT_FEIM, INT_PEIM, INT_BEIM, INT_OEIM>>))
      c5 == SetBits(c4, CTL_UARTEN)
  IN  << Wrote(nr, "UARTCR", c1), Wrote(nr, "UARTCR", c2), Wrote(nr, "UARTCR", c3),
         Wrote(nr, "UARTCR", c4), Wrote(nr, "UARTIMSC", i1), Wrote(nr, "UARTIMSC", i2),
         Wrote(nr, "UARTCR", c5) >>

\* variant: __setCrBit that leaves the UART disabled
SetCrBitWritesNoReenable(u, nr, set, bitmask) ==
  LET c1 == ClearBits(ReadReg(u, nr, "UARTCR"), CTL_UARTEN)
      c2 == IF set THEN SetBits(c1, bitmask) ELSE ClearBits(c1, bitmask)
  IN  << Wrote(nr, "UARTCR", c1), Wrote(nr, "UARTCR", c2) >>
\* the register writes of __setCrBit, in order
SetCrBitWrites(u, nr, set, bitmask) ==
  LET c0 == ReadReg(u, nr, "UARTCR")
      enabled == ReadBits(c0, CTL_UARTEN)
      c1 == ClearBits(c0, CTL_UARTEN)
      c2 == IF set THEN SetBits(c1, bitmask) ELSE ClearBits(c1, bitmask)
  IN  << Wrote(nr, "UARTCR", c1), Wrote(nr, "UARTCR", c2) >>
        \o (IF enabled # 0 THEN << Wrote(nr, "UARTCR", SetBits(c2, CTL_UARTEN)) >>
            ELSE << >>)

\* one HWREG_SET_BITS / HWREG_CLEAR_BITS on a register
RmwWrite(u, nr, reg, set, bitmask) ==
  LET v == ReadReg(u, nr, reg)
  IN  << Wrote(nr, reg, IF set THEN SetBits(v, bitmask) ELSE ClearBits(v, bitmask)) >>

\* the registers after the writes w
RECURSIVE Apply(_, _)
Apply(u, w) ==
  IF w = <<>> THEN u
  ELSE Apply(IF Head(w).reg \in {"UARTCR", "UARTIMSC"}
             THEN WriteReg(u, Head(w).nr, Head(w).reg, Head(w).val)
             ELSE u,
             Tail(w))

\* a public function that only writes registers: sanity check, then writes w
RegisterCall(op, nr, w) ==
  IF InvalidNr(nr)
  THEN Finish(Call(op, nr, 0, <<>>, FALSE), uart, <<>>)
  ELSE Finish(Call(op, nr, 0, <<>>, FALSE), Apply(uart, w), w)

uart_init == \E nr \in NrVals : RegisterCall("uart_init", nr, InitWrites(uart, nr))

uart_enableUart ==
  \E nr \in NrVals :
    RegisterCall("uart_enableUart", nr, RmwWrite(uart, nr, "UARTCR", TRUE, CTL_UARTEN))

uart_disableUart ==
  \E nr \in NrVals :
    RegisterCall("uart_disableUart", nr, RmwWrite(uart, nr, "UARTCR", FALSE, CTL_UARTEN))

\* __setCrBit has the sanity check itself
uart_enableTx ==
  \E nr \in NrVals :
    RegisterCall("uart_enableTx", nr, SetCrBitWrites(uart, nr, TRUE, CTL_TXE))

uart_disableTx ==
  \E nr \in NrVals :
    RegisterCall("uart_disableTx", nr, SetCrBitWrites(uart, nr, FALSE, CTL_TXE))

uart_enableRx ==
  \E nr \in NrVals :
    RegisterCall("uart_enableRx", nr, SetCrBitWrites(uart, nr, TRUE, CTL_RXE))

uart_disableRx ==
  \E nr \in NrVals :
    RegisterCall("uart_disableRx", nr, SetCrBitWrites(uart, nr, FALSE, CTL_RXE))

uart_enableRxInterrupt ==
  \E nr \in NrVals :
    RegisterCall("uart_enableRxInterrupt", nr,
                 RmwWrite(uart, nr, "UARTIMSC", TRUE, INT_RXIM))

uart_disableRxInterrupt ==
  \E nr \in NrVals :
    RegisterCall("uart_disableRxInterrupt", nr,
                 RmwWrite(uart, nr, "UARTIMSC", FALSE, INT_RXIM))

\* pReg[nr]->UARTICR = INT_RXIM (the register is write only)
uart_clearRxInterrupt ==
  \E nr \in NrVals :
    RegisterCall("uart_clearRxInterrupt", nr, << Wrote(nr, "UARTICR", INT_RXIM) >>)

\* *cp of a '\0'-terminated string whose characters are s
CharAt(s, i) == IF i \in 1 .. Len(s) THEN s[i] ELSE 0
\* variant: the pointer advanced twice per character
AdvanceCpSkip(i) == i + 2
\* ++cp
AdvanceCp(i) == i + 1
\* cp = (NULL == str ? null_str : (char *)str)
PrintSource(c) == IF c.isNull THEN null_str ELSE c.str

uart_printChar ==
  \E nr \in NrVals, ch \in {Chars[k] : k \in 1 .. 3} :
    IF InvalidNr(nr)
    THEN Finish(Call("uart_printChar", nr, ch, <<>>, FALSE), uart, <<>>)
    ELSE Begin(Call("uart_printChar", nr, ch, <<>>, FALSE), "poll_tx", 0)

uart_print ==
  \E nr \in NrVals, str \in Strings, isNull \in BOOLEAN :
    /\ isNull => str = <<>>
    /\ LET c == Call("uart_print", nr, 0, str, isNull)
       IN  IF InvalidNr(nr) \/ CharAt(PrintSource(c), 1) = 0
           THEN Finish(c, uart, <<>>)
           ELSE Begin(c, "poll_tx", 1)

\* __printCh: while (0 != HWREG_READ_BITS(pReg[nr]->UARTFR, FR_TXFF)) {}
printCh_poll ==
  /\ upc = "poll_tx"
  /\ \E v \in FrVals :
       /\ fr' = v
       /\ sawFull' = (sawFull \/ ReadBits(v, FR_TXFF) # 0)
       /\ upc' = IF ReadBits(v, FR_TXFF) # 0 THEN "poll_tx" ELSE "write_dr"
  /\ UNCHANGED <<uart, call, cp, wlog, drRead, pre, ret, thunkVars>>

\* the character __printCh is to send
Pending == IF call.op = "uart_print" THEN CharAt(PrintSource(call), cp) ELSE call.ch

\* __printCh: *((char *)&(pReg[nr]->UARTDR)) = ch; then the caller's loop
printCh_write ==
  /\ upc = "write_dr"
  /\ wlog' = Append(wlog, Wrote(call.nr, "UARTDR", Pending))
  /\ IF call.op = "uart_print" /\ CharAt(PrintSource(call), AdvanceCp(cp)) # 0
     THEN upc' = "poll_tx"
     ELSE upc' = "done"
  /\ cp' = IF call.op = "uart_print" THEN AdvanceCp(cp) ELSE cp
  /\ UNCHANGED <<uart, call, fr, sawFull, drRead, pre, ret, thunkVars>>

uart_readChar ==
  \E nr \in NrVals :
    IF InvalidNr(nr)
    THEN Finish(Call("uart_readChar", nr, 0, <<>>, FALSE), uart, <<>>)
    ELSE Begin(Call("uart_readChar", nr, 0, <<>>, FALSE), "poll_rx", 0)

\* while (0 != HWREG_READ_BITS(pReg[nr]->UARTFR, FR_RXFE));
readChar_poll ==
  /\ upc = "poll_rx"
  /\ \E v \in FrVals :
       /\ fr' = v
       /\ upc' = IF ReadBits(v, FR_RXFE) # 0 THEN "poll_rx" ELSE "read_dr"
  /\ UNCHANGED <<uart, call, cp, wlog, sawFull, drRead, pre, ret, thunkVars>>

\* return *((char *)&(pReg[nr]->UARTDR));
readChar_read ==
  /\ upc = "read_dr"
  /\ \E d \in DrVals :
       /\ drRead' = d
       /\ ret' = d % 256
  /\ upc' = "done"
  /\ UNCHANGED <<uart, call, cp, wlog, fr, sawFull, pre, thunkVars>>

\* the caller goes on after the call has returned
CallerResumes ==
  /\ upc = "done"
  /\ upc' = "idle"
  /\ call' = Call("none", 0, 0, <<>>, FALSE)
  /\ pre' = uart
  /\ cp' = 0 /\ wlog' = <<>> /\ fr' = -1 /\ sawFull' = FALSE /\ drRead' = -1 /\ ret' = 0
  /\ UNCHANGED <<uart, thunkVars>>

UartNext ==
  \/ CallerResumes
  \/ uart_init
  \/ uart_printChar
  \/ uart_print
  \/ printCh_poll
  \/ printCh_write
  \/ uart_enableUart
  \/ uart_disableUart
  \/ uart_enableTx
  \/ uart_disableTx
  \/ uart_enableRx
  \/ uart_disableRx
  \/ uart_enableRxInterrupt
  \/ uart_disableRxInterrupt
  \/ uart_clearRxInterrupt
  \/ uart_readChar
  \/ readChar_poll
  \/ readChar_read

UartSpecInit == ThunkUnused /\ UartInit
UartSpec == UartSpecInit /\ [][UartNext]_vars

(***************************************************************************)
(* C9. Fail-silent driver: a call of any public operation with a channel   *)
(* index nr >= BSP_NR_UARTS returns at once, writes no register of any     *)
(* UART and reads none; uart_readChar returns the zero byte.               *)
(***************************************************************************)
C9_FailSilent ==
  (call.op # "none" /\ call.nr >= BSP_NR_UARTS) =>
    /\ upc = "done"
    /\ wlog = <<>>
    /\ uart = pre
    /\ fr = -1 /\ drRead = -1
    /\ ret = 0

C9_Witness ==
  /\ upc = "done"
  /\ call.op = "uart_readChar"
  /\ call.nr = BSP_NR_UARTS
  /\ ret = 0 /\ wlog = <<>> /\ fr = -1

(***************************************************************************)
(* C10. uart_print on a valid channel with a non-NULL string s of length   *)
(* n, every read of the transmit-full flag showing 0, makes exactly n      *)
(* data-register writes, of s[0] .. s[n-1] in this order, and no other     *)
(* register write.                                                         *)
(***************************************************************************)
C10_PrintWritesString ==
  (upc = "done" /\ call.op = "uart_print" /\ call.nr < BSP_NR_UARTS
     /\ ~call.isNull /\ ~sawFull) =>
    wlog = [i \in 1 .. Len(call.str) |-> Wrote(call.nr, "UARTDR", call.str[i])]

C10_Witness ==
  /\ upc = "done"
  /\ call.op = "uart_print" /\ call.nr = BSP_NR_UARTS - 1 /\ ~call.isNull
  /\ call.str = <<79, 75, 10>>
  /\ ~sawFull
  /\ wlog = << Wrote(call.nr, "UARTDR", 79), Wrote(call.nr, "UARTDR", 75),
               Wrote(call.nr, "UARTDR", 10) >>

(***************************************************************************)
(* The driver with the processor making progress: a call that has left a   *)
(* polling loop goes on to its next statement.                             *)
(***************************************************************************)
UartLiveSpec ==
  /\ UartSpecInit
  /\ [][UartNext]_vars
  /\ WF_vars(printCh_write)
  /\ WF_vars(readChar_read)

PrintOps == {"uart_printChar", "uart_print"}
TxFull(v) == And32(v, FR_TXFF) # 0
RxEmpty(v) == And32(v, FR_RXFE) # 0

(***************************************************************************)
(* C11. Sending a character blocks until the transmit queue has room: in   *)
(* uart_printChar and uart_print every data-register write comes directly *)
(* after a read of the flag register that showed TXFF clear, a read that   *)
(* shows TXFF set is followed by another read and by no write, and once a  *)
(* read has shown TXFF clear the pending character is eventually written.  *)
(***************************************************************************)
C11_WriteStep ==
  (call.op \in PrintOps /\ Len(wlog') > Len(wlog)) =>
    /\ upc = "write_dr"
    /\ fr # -1 /\ ~TxFull(fr)
    /\ wlog' = Append(wlog, Wrote(call.nr, "UARTDR", Pending))
C11_PollStep ==
  (upc = "poll_tx" /\ upc' # "poll_tx") => (upc' = "write_dr" /\ ~TxFull(fr'))
C11_FullStep ==
  (upc = "poll_tx" /\ TxFull(fr')) => (upc' = "poll_tx" /\ wlog' = wlog)
C11_BlocksUntilRoom ==
  /\ [][C11_WriteStep /\ C11_PollStep /\ C11_FullStep]_vars
  /\ [](upc = "write_dr" => (fr # -1 /\ ~TxFull(fr)))
  /\ (upc = "write_dr") ~> (upc # "write_dr")

C11_Witness ==
  /\ upc = "done" /\ call.op = "uart_print" /\ call.nr = BSP_NR_UARTS - 1
  /\ sawFull /\ ~TxFull(fr)
  /\ Len(wlog) = 3

(***************************************************************************)
(* C12. uart_readChar reads the data register only directly after a read   *)
(* of the flag register that showed RXFE clear; while RXFE reads as set it *)
(* neither returns nor reads the data register; once RXFE has read clear   *)
(* it returns, and the value returned is the least significant byte of the *)
(* data register.                                                          *)
(***************************************************************************)
C12_ReadStep ==
  (drRead' # drRead /\ drRead' # -1) =>
    /\ upc = "read_dr" /\ call.op = "uart_readChar"
    /\ fr # -1 /\ ~RxEmpty(fr)
    /\ upc' = "done"
    /\ ret' = drRead' % 256
C12_PollStep ==
  (upc = "poll_rx" /\ upc' # "poll_rx") => (upc' = "read_dr" /\ ~RxEmpty(fr'))
C12_EmptyStep ==
  (upc = "poll_rx" /\ RxEmpty(fr')) => (upc' = "poll_rx" /\ drRead' = -1)
C12_WaitsForData ==
  /\ [][C12_ReadStep /\ C12_PollStep /\ C12_EmptyStep]_vars
  /\ []((upc = "done" /\ call.op = "uart_readChar" /\ call.nr < BSP_NR_UARTS) =>
          (drRead # -1 /\ ret = drRead % 256 /\ ~RxEmpty(fr)))
  /\ (upc = "read_dr") ~> (upc = "done" /\ call.op = "uart_readChar")

C12_Witness ==
  /\ upc = "done" /\ call.op = "uart_readChar" /\ call.nr = BSP_NR_UARTS - 1
  /\ drRead = 3840 + 90 /\ ret = 90
  /\ ~RxEmpty(fr)

(***************************************************************************)
(* C13. uart_print with a NULL string transmits the placeholder its        *)
(* documentation names, "<NULL>": the data-register writes are exactly     *)
(* the characters of that placeholder, in order, and no character is read  *)
(* through the NULL pointer.                                               *)
(***************************************************************************)
\* the placeholder as the comment above uart_print gives it
DocumentedPlaceholder == <<60, 78, 85, 76, 76, 62>>     \* "<NULL>"

NullPrintDone ==
  /\ upc = "done" /\ call.op = "uart_print" /\ call.isNull
  /\ call.nr < BSP_NR_UARTS

C13_NullPlaceholder ==
  NullPrintDone =>
    wlog = [i \in 1 .. Len(DocumentedPlaceholder) |->
              Wrote(call.nr, "UARTDR", DocumentedPlaceholder[i])]

\* the writes made are those of "<NULL>" followed by a line feed
C13_PlaceholderWithNewline ==
  /\ NullPrintDone
  /\ Len(wlog) = Len(DocumentedPlaceholder) + 1
  /\ \A i \in 1 .. Len(DocumentedPlaceholder) :
       wlog[i] = Wrote(call.nr, "UARTDR", DocumentedPlaceholder[i])
  /\ wlog[Len(wlog)] = Wrote(call.nr, "UARTDR", 10)

(***************************************************************************)
(* C14. uart_init on a valid channel, whatever the control and interrupt   *)
(* mask registers held, ends with UARTEN = 1, TXE = 1, RXE = 0, the bits   *)
(* SIREN, SIRLP, LBE, DTR, RTS, Out1, Out2, RTSEn, CTSEn 0, the eleven     *)
(* interrupt mask bits 0, and the reserved bits of both registers as they  *)
(* were.                                                                   *)
(***************************************************************************)
\* the bits of UARTCR and UARTIMSC that have a name (0xFF87, 0x7FF)
CrNamedBits ==
  CTL_UARTEN + CTL_SIREN + CTL_SIRLP + CTL_LBE + CTL_TXE + CTL_RXE + CTL_DTR
    + CTL_RTS + CTL_OUT1 + CTL_OUT2 + CTL_RTSEn + CTL_CTSEn
ImscNamedBits ==
  INT_RIMIM + INT_CTSMIM + INT_DCDMIM + INT_DSRMIM + INT_RXIM + INT_TXIM
    + INT_RTIM + INT_FEIM + INT_PEIM + INT_BEIM + INT_OEIM

InitDone == upc = "done" /\ call.op = "uart_init" /\ call.nr < BSP_NR_UARTS

C14_InitEndState ==
  InitDone =>
    LET cr == uart[call.nr].UARTCR
        cr0 == pre[call.nr].UARTCR
        im == uart[call.nr].UARTIMSC
        im0 == pre[call.nr].UARTIMSC
    IN  /\ And32(cr, CrNamedBits) = CTL_UARTEN + CTL_TXE
        /\ And32(im, ImscNamedBits) = 0
        /\ Bic32(cr, CrNamedBits) = Bic32(cr0, CrNamedBits)
        /\ Bic32(im, ImscNamedBits) = Bic32(im0, ImscNamedBits)

\* from UARTCR = 0x5555AAAB to 0x55550129
C14_Witness ==
  /\ InitDone
  /\ pre[call.nr].UARTCR = MkWord(21845, 43691)
  /\ uart[call.nr].UARTCR = MkWord(21845, 297)
  /\ uart[call.nr].UARTIMSC = MkWord(43690, 20480)
  /\ Len(wlog) = 7

(***************************************************************************)
(* C15. uart_enableTx, uart_disableTx, uart_enableRx and uart_disableRx on *)
(* a valid channel leave UARTEN as it was before the call, for both values *)
(* of UARTEN, and change no bit of the control register but TXE or RXE,    *)
(* which ends set (enable) or cleared (disable).                           *)
(***************************************************************************)
TxRxOps == {"uart_enableTx", "uart_disableTx", "uart_enableRx", "uart_disableRx"}
TxRxDone == upc = "done" /\ call.op \in TxRxOps /\ call.nr < BSP_NR_UARTS

C15_OnlyRequestedBit ==
  TxRxDone =>
    LET bit == IF call.op \in {"uart_enableTx", "uart_disableTx"} THEN CTL_TXE ELSE CTL_RXE
        cr0 == pre[call.nr].UARTCR
        cr == uart[call.nr].UARTCR
    IN  /\ cr = IF call.op \in {"uart_enableTx", "uart_enableRx"}
                THEN Or32(cr0, bit) ELSE Bic32(cr0, bit)
        /\ And32(cr, CTL_UARTEN) = And32(cr0, CTL_UARTEN)

C15_Witness ==
  /\ TxRxDone /\ call.op = "uart_enableRx"
  /\ And32(pre[call.nr].UARTCR, CTL_UARTEN + CTL_RXE) = CTL_UARTEN
  /\ And32(uart[call.nr].UARTCR, CTL_UARTEN + CTL_RXE) = CTL_UARTEN + CTL_RXE
  /\ Len(wlog) = 3

(***************************************************************************)
(* More vocabulary of the properties of _start.                            *)
(***************************************************************************)
\* the status word `str r4, .Lmode` saved, once the switch has been made
SavedMode == Rd(mem, Add32(loadAddr, LmodeOff(forceSvc)))
\* just after `msr cpsr, r4`: r4 still holds the word written
JustSwitched == pc = "stack_install" /\ forceSvc
PrivateStackTop == Add32(loadAddr, sym.stack)
AtMain == pc = "main"

(***************************************************************************)
(* C16. Mode switch (FORCE_SVC): the status word written differs from the  *)
(* word just read and saved only in bits 0-4, which are forced to the      *)
(* supervisor mode; all other bits, the interrupt-disable bits among them, *)
(* are written back unchanged.                                             *)
(***************************************************************************)
C16_OnlyModeFieldForced ==
  JustSwitched =>
    /\ And32(r4, 31) = ModeSvc
    /\ Bic32(r4, 31) = Bic32(SavedMode, 31)

\* C16, what the code writes: bits 0-4 forced to supervisor mode and the two
\* interrupt-disable bits I (7) and F (6) forced to 1; bit 5 and bits 8-31
\* written back unchanged.
C16_ModeAndMasksForced ==
  JustSwitched =>
    /\ And32(r4, 31 + 192) = ModeSvc + 192
    /\ Bic32(r4, 31 + 192) = Bic32(SavedMode, 31 + 192)

C16_Witness ==
  /\ JustSwitched
  /\ SavedMode = entry.cpsr
  /\ And32(SavedMode, 192) = 0 /\ And32(r4, 192) = 192
  /\ Bic32(r4, 255) = Bic32(SavedMode, 255) /\ Bic32(r4, 255) # 0

(***************************************************************************)
(* C17. The private stack pointer is installed after the mode switch and   *)
(* before the zero-fill pass and the call of main: when main is called the *)
(* stack pointer of the active mode is Load Base Offset + __stack__, and   *)
(* when the active mode is not the caller's, the caller's banked stack     *)
(* pointer was not overwritten by the installation.                        *)
(***************************************************************************)
C17_PrivateStackAtMain ==
  /\ (pc = "stack_install") =>
       /\ bssN = 0 /\ mainCalls = 0
       /\ (forceSvc /\ ModeOf(entry.cpsr) # ModeUsr) => ModeOf(cpsr) = ModeSvc
  /\ (pc \in {"bss_setup", "bss_loop", "call_main", "main"}) =>
       /\ sp[CurBank] = PrivateStackTop
       /\ (CurBank # CallerBank) =>
            sp[CallerBank] = Sub32(entry.sp[CallerBank], 16)

C17_Witness ==
  /\ AtMain /\ forceSvc
  /\ CallerBank = "irq" /\ CurBank = "svc"
  /\ sp["svc"] = PrivateStackTop
  /\ sp["irq"] = Sub32(entry.sp["irq"], 16)
  /\ bssN > 0

(***************************************************************************)
(* C18. Unwind with FORCE_SVC: the saved mode bits are written back before *)
(* the caller's stack pointer is reloaded, so the reload lands in the bank *)
(* of the mode active at entry and never in the bank of the forced mode.   *)
(***************************************************************************)
C18_ReloadStep ==
  (pc = "stack_restore" /\ pc' = "bx_lr" /\ forceSvc) =>
    /\ ModeOf(cpsr) = ModeOf(entry.cpsr)
    /\ sp'[CallerBank] = entry.sp[CallerBank]
    /\ \A b \in Banks \ {CallerBank} : sp'[b] = sp[b]
C18_ReloadInCallerBank ==
  /\ [][C18_ReloadStep]_vars
  /\ []((AtReturn /\ forceSvc /\ CallerBank # "svc") => sp["svc"] = entry.sp["svc"])

C18_Witness ==
  /\ AtReturn /\ forceSvc
  /\ ModeOf(entry.cpsr) = ModeSys /\ ModeOf(cpsr) = ModeSys
  /\ sp["usr"] = entry.sp["usr"]
  /\ sp["svc"] = entry.sp["svc"]
  /\ mainCalls = 1

(***************************************************************************)
(* C19. Load Base Offset: `sub r7, pc, #12`, with the pc reading as the    *)
(* instruction's address + 8, gives the run-time address of _start for     *)
(* every load address; r7 is not written again before the final register   *)
(* restore, and it is the value added to both Offset Table bounds, to      *)
(* every slot, to __stack__ and to both Zero Region bounds.                *)
(***************************************************************************)
C19_R7Step == (pc \notin {"start", "stack_restore"}) => r7' = r7
C19_LoadBaseFixed ==
  /\ [][C19_R7Step]_vars
  /\ []((pc \notin {"start", "bx_lr", "returned"} /\ retTo = 0) => r7 = loadAddr)
  /\ [](pc = "got_loop" =>
          /\ r5 = Add32(sym.got_start, loadAddr)
          /\ r6 = Sub32(Sub32(sym.got_end, sym.got_start), 4 * gotN))
  /\ [](pc = "bss_loop" =>
          /\ r5 = Add32(sym.bss_start, loadAddr)
          /\ r6 = Sub32(Sub32(sym.bss_end, sym.bss_start), 4 * bssN))
  /\ [](pc = "bss_setup" => sp[CurBank] = Add32(sym.stack, loadAddr))
  /\ [](WalkEnded =>
          \A e \in acc :
            (e.blk = "got" /\ e.op = "w") =>
              Rd(mem, e.addr) = Add32(Rd(entry.mem, e.addr), loadAddr))

\* loaded at 0xFFFC0000
C19_Witness ==
  /\ AtMain
  /\ loadAddr = -262144 /\ r7 = -262144
  /\ gotN >= 1 /\ bssN >= 1

(***************************************************************************)
(* C20. One linear sequence: the steps of _start run in their fixed order, *)
(* none runs a second time, each fix-up loop makes exactly length/4        *)
(* iterations, and after the return instruction control is back at the     *)
(* caller.                                                                 *)
(***************************************************************************)
C20_SingleLinearSequence ==
  /\ retTo # 0 => pc = "returned"
  /\ mainCalls <= 1
  /\ (WalkEnded /\ GotProper) => gotN = GotSlots
  /\ (pc \in {"call_main", "main"} /\ BssProper) => bssN = BssWords

\* after `bx lr` the unwind code of _start is about to run a second time
C20_UnwindRunsAgain ==
  /\ pc = "stack_restore" /\ ~forceSvc
  /\ retTo = RetAddr
  /\ mainCalls = 1
  /\ sp[CurBank] = entry.sp[CallerBank]

(***************************************************************************)
(* C21. Disable-before-modify: in uart_init and in the Tx/Rx enable and    *)
(* disable operations the first register write clears UARTEN and nothing   *)
(* else, every write that changes another bit of the control register is   *)
(* made while UARTEN is 0, and UARTEN is set again by the last write:      *)
(* always in uart_init, only if it was set before the call in __setCrBit.  *)
(***************************************************************************)
CrOpDone ==
  /\ upc = "done" /\ call.nr < BSP_NR_UARTS
  /\ call.op \in TxRxOps \cup {"uart_init"}

\* the control register as write number i of the call finds it
CrBefore(i) ==
  LET js == {j \in 1 .. (i - 1) : wlog[j].reg = "UARTCR"}
  IN  IF js = {} THEN pre[call.nr].UARTCR
      ELSE wlog[CHOOSE j \in js : \A k \in js : k <= j].val

C21_DisableBeforeModify ==
  CrOpDone =>
    LET n == Len(wlog)
        cr0 == pre[call.nr].UARTCR
        reenable == call.op = "uart_init" \/ And32(cr0, CTL_UARTEN) # 0
    IN  /\ n >= 2
        /\ wlog[1] = Wrote(call.nr, "UARTCR", Bic32(cr0, CTL_UARTEN))
        /\ \A i \in 1 .. n :
             (wlog[i].reg = "UARTCR"
                /\ Bic32(wlog[i].val, CTL_UARTEN) # Bic32(CrBefore(i), CTL_UARTEN)) =>
               /\ And32(CrBefore(i), CTL_UARTEN) = 0
               /\ And32(wlog[i].val, CTL_UARTEN) = 0
        /\ \A i \in 1 .. (n - 1) :
             wlog[i].reg = "UARTCR" => And32(wlog[i].val, CTL_UARTEN) = 0
        /\ IF reenable
           THEN wlog[n] = Wrote(call.nr, "UARTCR", Or32(CrBefore(n), CTL_UARTEN))
           ELSE And32(wlog[n].val, CTL_UARTEN) = 0

C21_Witness ==
  /\ CrOpDone /\ call.op = "uart_disableRx"
  /\ And32(pre[call.nr].UARTCR, CTL_UARTEN + CTL_RXE) = CTL_UARTEN + CTL_RXE
  /\ Len(wlog) = 3
  /\ And32(wlog[2].val, CTL_UARTEN + CTL_RXE) = 0
  /\ And32(wlog[3].val, CTL_UARTEN + CTL_RXE) = CTL_UARTEN

(***************************************************************************)
(* C22. Callee-saved working registers: at the thunk's final return        *)
(* instruction r4-r7 hold the values they had at entry, provided main did  *)
(* not write the four words the thunk pushed below the entry stack         *)
(* pointer.                                                                *)
(***************************************************************************)
\* the four pushed words still hold what `stmfd sp!, {r4-r7}` put there
FrameIntact ==
  LET s1 == Sub32(entry.sp[CallerBank], 16)
  IN  /\ Rd(mem, s1) = entry.r4
      /\ Rd(mem, Add32(s1, 4)) = entry.r5
      /\ Rd(mem, Add32(s1, 8)) = entry.r6
      /\ Rd(mem, Add32(s1, 12)) = entry.r7

C22_WorkingRegistersRestored ==
  /\ (AtReturn /\ FrameIntact) =>
       (r4 = entry.r4 /\ r5 = entry.r5 /\ r6 = entry.r6 /\ r7 = entry.r7)
  /\ (pc \in {"dcache", "invalidate", "got_setup", "got_loop", "mode_switch",
              "stack_install", "bss_setup", "bss_loop", "call_main", "main"})
       => FrameIntact

C22_Witness ==
  /\ AtReturn /\ FrameIntact /\ mainCalls = 1
  /\ r4 = entry.r4 /\ r5 = entry.r5 /\ r6 = entry.r6 /\ r7 = entry.r7
  /\ r7 # loadAddr
  /\ gotN >= 1 /\ bssN >= 1

(***************************************************************************)
(* C23. Relocation is cumulative: after k complete, strictly sequential    *)
(* invocations of _start at the same load offset B every Offset Table slot *)
(* holds its link-time value plus k times B (mod 2^32).                    *)
(***************************************************************************)
\* v + k * b (mod 2^32)
RECURSIVE AddTimes(_, _, _)
AddTimes(v, b, k) == IF k = 0 THEN v ELSE AddTimes(Add32(v, b), b, k - 1)

\* every slot holds its link-time value plus the offset, once per invocation
GotPatchedTimes ==
  \A a \in WordsOf(GotStartRt, GotSlots) :
    Rd(mem, a) = AddTimes(Rd(entry.image, a), LoadBase, entry.run)

C23_CumulativeRelocation ==
  (WalkEnded /\ GotProper) => GotPatchedTimes

\* the same statement for tables that do not reach address 0x80000000
CumulativeRelocationBelowBoundary ==
  (WalkEnded /\ GotProper /\ GotUnsignedSafe) => GotPatchedTimes

\* two invocations at 0x7FFF0000 and the slot at 0x7FFFFFFC still holds its
\* link-time value
C23_UnchangedAfterTwo ==
  /\ WalkEnded /\ entry.run = 2
  /\ loadAddr = 2147418112
  /\ sym.got_start = GotLink /\ sym.got_end = GotLink + 4
  /\ Rd(mem, GotStartRt) = Rd(entry.image, GotStartRt)

\* two invocations at 0x00010000 and every slot holds v + 2 * B
C23_TwiceRelocated ==
  /\ WalkEnded /\ entry.run = 2
  /\ loadAddr = 65536 /\ GotSlots >= 1
  /\ \A a \in WordsOf(GotStartRt, GotSlots) :
       Rd(mem, a) = Add32(Rd(entry.image, a), 2 * 65536)

(***************************************************************************)
(* C24. With FORCE_SVC the banked stack pointer of the supervisor mode is  *)
(* preserved: its value after the thunk has unwound equals the value it    *)
(* had when the mode switch took effect, whether the caller ran in another *)
(* mode or in supervisor mode already.                                     *)
(***************************************************************************)
\* the supervisor stack pointer when `msr cpsr, r4` took effect: untouched
\* for a caller in another mode, below the entry push for a caller in
\* supervisor mode
SvcSpAtSwitch ==
  IF CallerBank = "svc" THEN Sub32(entry.sp["svc"], 16) ELSE entry.sp["svc"]

C24_SvcStackPointerPreserved ==
  (AtReturn /\ forceSvc) => sp["svc"] = SvcSpAtSwitch

\* C24, what the code does: `ldr sp, .Lstack_svc` puts the supervisor stack
\* pointer back to its value at the switch; for a caller in another mode it
\* keeps that value to the return, for a caller in supervisor mode the
\* reload from .Lstack and the pop then take it on to its value at entry,
\* 16 bytes above.
C24_SvcStackPointerUnwound ==
  forceSvc =>
    /\ (pc = "stack_restore") => sp["svc"] = SvcSpAtSwitch
    /\ AtReturn =>
         sp["svc"] = IF CallerBank = "svc" THEN Add32(SvcSpAtSwitch, 16)
                     ELSE SvcSpAtSwitch
    /\ (pc \in {"bss_setup", "bss_loop", "call_main", "main"}
          /\ ModeOf(entry.cpsr) # ModeUsr) => sp["svc"] = PrivateStackTop

C24_Witness ==
  /\ AtReturn /\ forceSvc /\ mainCalls = 1
  /\ CallerBank = "svc"
  /\ Rd(mem, Add32(loadAddr, LstackSvcOff(forceSvc))) = SvcSpAtSwitch
  /\ sp["svc"] = entry.sp["svc"]
  /\ sp["svc"] # SvcSpAtSwitch

====
